---- MODULE Spec2Model ----
(***************************************************************************)
(* A model of generate_repo.py, the Kodi repository generator: main() and  *)
(* the helpers it calls (load_config, fetch_latest_release,                *)
(* download_asset, extract_addon_xml, md5sum, md5_string,                  *)
(* generate_addons_xml, generate_index_pages).                             *)
(*                                                                         *)
(* Text is a sequence of tokens: "\n" and " " are the whitespace           *)
(* characters, "<?xml" is the five characters an XML declaration starts    *)
(* with, "?>" closes a declaration, "<addon>" / "</addon>" and             *)
(* "<addons>" / "</addons>" are tags, and every other token is character   *)
(* data.  A file name is a sequence of pieces whose last piece is its      *)
(* extension ("a", ".zip"); a directory is the sequence of the folder      *)
(* names below the output directory, <<>> being the output directory.      *)
(***************************************************************************)
EXTENDS Integers, Sequences, FiniteSets, TLC

VARIABLES
    pc,             \* position of main(): load, clean, self, loop, check, index, exit
    config,         \* what addons.json holds
    self_manifest,  \* repository.dangerouslaser/addon.xml: absent, or its attributes
    dirs,           \* directories that exist at or below OUTPUT_DIR
    files,          \* <<directory, file name>> -> content, below OUTPUT_DIR
    addon_xmls,     \* main's list addon_xmls
    i,              \* index of the next addon of config["addons"]
    exit_status,    \* "running", "zero", "nonzero"
    raised,         \* the exception that ended main, or "none"
    log,            \* history: one record per configured addon processed
    merged,         \* history: the arguments generate_addons_xml was called with
    prev,           \* history: the output tree as it was when main started
    arg,            \* argument of the function applied in SpecMerge and SpecExtract
    ret             \* its result

vars == <<pc, config, self_manifest, dirs, files, addon_xmls, i, exit_status,
          raised, log, merged, prev, arg, ret>>

(***************************************************************************)
(* Bounds                                                                  *)
(***************************************************************************)
MaxAddons == 2
MaxFragLen == 5
MaxFrags == 2
MaxEntries == 3

(***************************************************************************)
(* str methods                                                             *)
(***************************************************************************)
Whitespace == {" ", "\n"}

RECURSIVE lstrip(_)
lstrip(s) ==
    IF s # <<>> /\ s[1] \in Whitespace THEN lstrip(Tail(s)) ELSE s

RECURSIVE rstrip(_)
rstrip(s) ==
    IF s # <<>> /\ s[Len(s)] \in Whitespace
        THEN rstrip(SubSeq(s, 1, Len(s) - 1)) ELSE s

strip(s) == rstrip(lstrip(s))

\* str.splitlines(): a final line break opens no further line.
RECURSIVE splitlines(_)
splitlines(s) ==
    IF s = <<>> THEN <<>>
    ELSE IF \E k \in 1..Len(s) : s[k] = "\n"
        THEN LET k == CHOOSE k \in 1..Len(s) :
                        s[k] = "\n" /\ \A j \in 1..(k - 1) : s[j] # "\n"
             IN <<SubSeq(s, 1, k - 1)>> \o splitlines(SubSeq(s, k + 1, Len(s)))
        ELSE <<s>>

\* sep.join(parts)
RECURSIVE join(_, _)
join(sep, parts) ==
    IF parts = <<>> THEN <<>>
    ELSE IF Len(parts) = 1 THEN parts[1]
    ELSE parts[1] \o sep \o join(sep, Tail(parts))

startswith(s, marker) == s # <<>> /\ s[1] = marker

(***************************************************************************)
(* generate_addons_xml                                                     *)
(***************************************************************************)
XmlMarker == "<?xml"

\* '<?xml version="1.0" encoding="UTF-8"?>\n<addons>'
AddonsHeader == <<"<?xml", "?>", "\n", "<addons>">>

\* "</addons>\n"
AddonsFooter == <<"</addons>", "\n">>

RECURSIVE FilterLines(_)
FilterLines(lines) ==
    IF lines = <<>> THEN <<>>
    ELSE IF startswith(strip(lines[1]), XmlMarker)
        THEN FilterLines(Tail(lines))
        ELSE <<lines[1]>> \o FilterLines(Tail(lines))

StripDeclaration(xml_content) ==
    join(<<"\n">>, FilterLines(splitlines(strip(xml_content))))

RECURSIVE FragmentParts(_)
FragmentParts(xmls) ==
    IF xmls = <<>> THEN <<>>
    ELSE <<StripDeclaration(xmls[1])>> \o FragmentParts(Tail(xmls))

generate_addons_xml(xmls) ==
    join(<<"\n">>, <<AddonsHeader>> \o FragmentParts(xmls) \o <<AddonsFooter>>)

(***************************************************************************)
(* Well-formedness of a document, as an XML parser decides it: an optional *)
(* declaration at the very start, then one root element with balanced      *)
(* tags, and only white space outside the root.                            *)
(***************************************************************************)
OpenTags == {"<addon>", "<addons>"}
CloseTags == {"</addon>", "</addons>"}
CloseOf(tag) == IF tag = "<addon>" THEN "</addon>" ELSE "</addons>"

HasDeclaration(doc) ==
    /\ startswith(doc, XmlMarker)
    /\ \E k \in 2..Len(doc) :
        doc[k] = "?>" /\ \A j \in 2..(k - 1) : doc[j] \in Whitespace

\* The document after its declaration (all of it when it has none).
AfterDeclaration(doc) ==
    IF HasDeclaration(doc)
        THEN LET k == CHOOSE k \in 2..Len(doc) :
                        doc[k] = "?>" /\ \A j \in 2..(k - 1) : doc[j] # "?>"
             IN SubSeq(doc, k + 1, Len(doc))
        ELSE doc

RECURSIVE Balanced(_, _, _)
Balanced(s, stack, roots) ==
    IF s = <<>> THEN stack = <<>> /\ roots = 1
    ELSE LET t == s[1] IN
        IF t \in OpenTags
            THEN IF stack = <<>>
                    THEN roots = 0 /\ Balanced(Tail(s), <<t>>, 1)
                    ELSE Balanced(Tail(s), <<t>> \o stack, roots)
        ELSE IF t \in CloseTags
            THEN /\ stack # <<>>
                 /\ CloseOf(stack[1]) = t
                 /\ Balanced(Tail(s), Tail(stack), roots)
        ELSE IF t = XmlMarker THEN FALSE
        ELSE IF t \in Whitespace THEN Balanced(Tail(s), stack, roots)
        ELSE stack # <<>> /\ Balanced(Tail(s), stack, roots)

WellFormed(doc) ==
    /\ startswith(doc, XmlMarker) => HasDeclaration(doc)
    /\ Balanced(AfterDeclaration(doc), <<>>, 0)

RootTag(doc) ==
    LET body == lstrip(AfterDeclaration(doc)) IN
    IF body = <<>> THEN "" ELSE body[1]

\* What a fragment holds besides its declaration and the white space around.
NonProlog(fragment) == strip(AfterDeclaration(fragment))

\* The least position after an occurrence of part in s at or after from; 0 if none.
EndOfFirst(s, part, from) ==
    LET hits == {k \in from..(Len(s) - Len(part) + 1) :
                    SubSeq(s, k, k + Len(part) - 1) = part}
    IN IF hits = {} THEN 0
       ELSE (CHOOSE k \in hits : \A j \in hits : k <= j) + Len(part)

RECURSIVE ContainsInOrder(_, _, _)
ContainsInOrder(s, parts, from) ==
    IF parts = <<>> THEN TRUE
    ELSE LET e == EndOfFirst(s, parts[1], from) IN
         e # 0 /\ ContainsInOrder(s, Tail(parts), e)

RECURSIVE NonPrologs(_)
NonPrologs(xmls) ==
    IF xmls = <<>> THEN <<>>
    ELSE <<NonProlog(xmls[1])>> \o NonPrologs(Tail(xmls))

(***************************************************************************)
(* The Manifest Merger on its own: every sequence of 1..MaxFrags           *)
(* well-formed fragments of at most MaxFragLen tokens.                     *)
(***************************************************************************)
FragAlphabet == {"<?xml", "?>", " ", "\n", "<addon>", "</addon>", "x"}

SeqsUpTo(S, n) == UNION {[1..k -> S] : k \in 0..n}

Fragments ==
    {f \in SeqsUpTo(FragAlphabet, MaxFragLen) :
        WellFormed(f) /\ RootTag(f) = "<addon>"}

NoTree == [dirs |-> {}, files |-> <<>>]

Idle ==
    /\ config = [kind |-> "ok", addons |-> <<>>]
    /\ self_manifest = [present |-> FALSE]
    /\ dirs = {} /\ files = <<>> /\ addon_xmls = <<>> /\ i = 1
    /\ exit_status = "running" /\ raised = "none"
    /\ log = <<>> /\ merged = <<>> /\ prev = NoTree

InitMerge ==
    /\ pc = "merge"
    /\ arg \in SeqsUpTo(Fragments, MaxFrags) \ {<<>>}
    /\ ret = <<>>
    /\ Idle

MergeCall ==
    /\ pc = "merge"
    /\ ret' = generate_addons_xml(arg)
    /\ pc' = "merged"
    /\ UNCHANGED <<config, self_manifest, dirs, files, addon_xmls, i,
                   exit_status, raised, log, merged, prev, arg>>

NextMerge == MergeCall

SpecMerge == InitMerge /\ [][NextMerge]_vars

\* C5: the merger's output is well-formed XML whose one root is the aggregate
\* element, and it holds every fragment's non-prolog content verbatim, in
\* input order; a fragment without a declaration line is merged unchanged.
C5_MergeWellFormedVerbatim ==
    pc = "merged" =>
        /\ WellFormed(ret)
        /\ RootTag(ret) = "<addons>"
        /\ ContainsInOrder(ret, NonPrologs(arg), 1)
        /\ \A k \in 1..Len(arg) :
            (~ \E j \in 1..Len(arg[k]) : arg[k][j] = XmlMarker)
                => StripDeclaration(arg[k]) = strip(arg[k])

(***************************************************************************)
(* extract_addon_xml.  An archive is the sequence of its entries in        *)
(* namelist() order; an entry's name is the sequence of its "/"-separated  *)
(* components and its data a token sequence.                               *)
(***************************************************************************)
ManifestName == "addon.xml"
BadByte == "\\xff"

None == [kind |-> "none", text |-> <<>>]
TextResult(t) == [kind |-> "text", text |-> t]
Raise(exc) == [kind |-> "raise", text |-> <<exc>>]

basename(name) == IF name = <<>> THEN "" ELSE name[Len(name)]
dirname(name) == IF name = <<>> THEN <<>> ELSE SubSeq(name, 1, Len(name) - 1)

\* ZipFile.read(name): the name is looked up in NameToInfo, where a later
\* entry of the same name has replaced an earlier one.
ZipRead(entries, name) ==
    LET k == CHOOSE k \in 1..Len(entries) :
                /\ entries[k].name = name
                /\ \A j \in (k + 1)..Len(entries) : entries[j].name # name
    IN entries[k].data

\* bytes.decode("utf-8")
decode(data) ==
    IF \E k \in 1..Len(data) : data[k] = BadByte
        THEN Raise("UnicodeDecodeError") ELSE TextResult(data)

Qualifies(name, addon_id) ==
    /\ basename(name) = ManifestName
    /\ (dirname(name) = <<>> \/ dirname(name) = addon_id)

extract_addon_xml(entries, addon_id) ==
    LET hits == {k \in 1..Len(entries) : Qualifies(entries[k].name, addon_id)}
    IN IF hits = {} THEN None
       ELSE LET k == CHOOSE k \in hits : \A j \in hits : k <= j
            IN decode(ZipRead(entries, entries[k].name))

(***************************************************************************)
(* The Archive Inspector on its own: every archive of at most MaxEntries   *)
(* entries.                                                                *)
(***************************************************************************)
EntryNames ==
    {<<"addon.xml">>, <<"plugin.a", "addon.xml">>,
     <<"plugin.a", "sub", "addon.xml">>, <<"other", "addon.xml">>,
     <<"plugin.a", "icon.png">>}

EntryData ==
    {<<"<addon>", "1", "</addon>">>, <<"<addon>", "2", "</addon>">>, <<BadByte>>}

ArchiveEntries == [name : EntryNames, data : EntryData]

InitExtract ==
    /\ pc = "extract"
    /\ arg \in [entries : SeqsUpTo(ArchiveEntries, MaxEntries),
                addon_id : {<<"plugin.a">>, <<"plugin.a", "sub">>}]
    /\ ret = None
    /\ Idle

ExtractCall ==
    /\ pc = "extract"
    /\ ret' = extract_addon_xml(arg.entries, arg.addon_id)
    /\ pc' = "extracted"
    /\ UNCHANGED <<config, self_manifest, dirs, files, addon_xmls, i,
                   exit_status, raised, log, merged, prev, arg>>

NextExtract == ExtractCall

SpecExtract == InitExtract /\ [][NextExtract]_vars

QualifyingEntries == {k \in 1..Len(arg.entries) : Qualifies(arg.entries[k].name, arg.addon_id)}

FirstQualifying == CHOOSE k \in QualifyingEntries : \A j \in QualifyingEntries : k <= j

\* C7: the result is the decoded text of the first entry, in archive order,
\* named addon.xml in the archive root or in the identifier-named folder;
\* with no such entry the result is not-found and nothing is raised.
C7_FirstQualifyingEntryWins ==
    pc = "extracted" =>
        IF QualifyingEntries = {} THEN ret = None
        ELSE decode(arg.entries[FirstQualifying].data).kind = "text"
                => ret = decode(arg.entries[FirstQualifying].data)

(***************************************************************************)
(* The file system below OUTPUT_DIR, file names and checksums              *)
(***************************************************************************)
Root == <<>>

Zip(entries) == [kind |-> "zip", body |-> entries]
Blob == [kind |-> "blob", body |-> <<>>]
TextFile(t) == [kind |-> "text", body |-> t]
Html(links) == [kind |-> "html", body |-> links]

\* hashlib.md5 of a file's bytes: equal bytes, equal digest.
md5sum(content) == [kind |-> "md5", body |-> <<content>>]

\* str.encode("utf-8"): the bytes write_text(..., "utf-8") puts in a file.
encode(t) == TextFile(t)

md5_string(t) == md5sum(encode(t))

WriteFile(fs, dir, name, content) ==
    [p \in DOMAIN fs \cup {<<dir, name>>} |->
        IF p = <<dir, name>> THEN content ELSE fs[p]]

\* Path.mkdir(parents=True, exist_ok=True)
MkdirP(ds, dir) == ds \cup {SubSeq(dir, 1, k) : k \in 0..Len(dir)}

FilesIn(fs, dir) == {p[2] : p \in {q \in DOMAIN fs : q[1] = dir}}

SubdirsOf(ds, dir) ==
    {d[Len(d)] : d \in {e \in ds : Len(e) = Len(dir) + 1 /\ dirname(e) = dir}}

\* Path.suffix and str.endswith(".zip"): the last piece of a name is its extension.
suffix(name) == IF Len(name) > 1 THEN name[Len(name)] ELSE ""
endswith(name, ext) == name # <<>> /\ name[Len(name)] = ext

Md5Name(name) == name \o <<".md5">>
IndexName == <<"index", ".html">>
AddonsXmlName == <<"addons", ".xml">>

\* sorted(): the names the model uses, in the order Python sorts them.
FileNameOrder ==
    << <<"a", ".txt">>, <<"a", ".zip">>, <<"a", ".zip", ".md5">>,
       <<"addons", ".xml">>, <<"addons", ".xml", ".md5">>, <<"index", ".html">>,
       <<"repo.test", "-", "1.0.0", ".zip">>,
       <<"repo.test", "-", "1.0.0", ".zip", ".md5">>,
       <<"repo.test", "-", "2.0.0", ".zip">>,
       <<"repo.test", "-", "2.0.0", ".zip", ".md5">>,
       <<"repository.dangerouslaser", "-", "1.0.0", ".zip">>,
       <<"repository.dangerouslaser", "-", "1.0.0", ".zip", ".md5">>,
       <<"repository.dangerouslaser", "-", "2.0.0", ".zip">>,
       <<"repository.dangerouslaser", "-", "2.0.0", ".zip", ".md5">> >>

DirNameOrder == <<"plugin.a", "repo.test", "repository.dangerouslaser", "sub">>

Rank(order, x) == CHOOSE k \in 1..Len(order) : order[k] = x

RECURSIVE sorted(_, _)
sorted(S, order) ==
    IF S = {} THEN <<>>
    ELSE LET m == CHOOSE x \in S : \A y \in S : Rank(order, x) <= Rank(order, y)
         IN <<m>> \o sorted(S \ {m}, order)

(***************************************************************************)
(* Inputs of a run                                                         *)
(***************************************************************************)
Absent == "(absent)"

\* Element.get(key, default)
get(attrs, key, default) == IF attrs[key] = Absent THEN default ELSE attrs[key]

SelfManifests ==
    {[present |-> FALSE, attrs |-> [id |-> Absent, version |-> Absent]]}
    \cup {[present |-> TRUE, attrs |-> a] :
            a \in [id : {Absent, "repo.test"}, version : {Absent, "2.0.0"}]}

\* repository.dangerouslaser/addon.xml as read_text returns it.
SelfText == <<"<?xml", "?>", "\n", "<addon>", "self", "</addon>", "\n">>

IdPool == {<<"repository.dangerouslaser">>, <<"plugin.a">>, <<"plugin.a", "sub">>}

Distinct(s) == \A j, k \in 1..Len(s) : j # k => s[j] # s[k]

Configs ==
    {[kind |-> k, addons |-> <<>>] : k \in {"unreadable", "nokey"}}
    \cup {[kind |-> "ok", addons |-> a] :
            a \in {b \in SeqsUpTo([addon_id : IdPool], MaxAddons) : Distinct(b)}}

OldText == <<"<?xml", "?>", "\n", "<addons>", "\n", "</addons>", "\n">>

OldTree ==
    [dirs |-> {Root},
     files |-> WriteFile(WriteFile(<<>>, Root, AddonsXmlName, TextFile(OldText)),
                         Root, Md5Name(AddonsXmlName), md5_string(OldText))]

Init ==
    /\ pc = "load"
    /\ config \in Configs
    /\ self_manifest \in SelfManifests
    /\ prev \in {NoTree, OldTree}
    /\ dirs = prev.dirs
    /\ files = prev.files
    /\ addon_xmls = <<>>
    /\ i = 1
    /\ exit_status = "running"
    /\ raised = "none"
    /\ log = <<>>
    /\ merged = <<>>
    /\ arg = <<>>
    /\ ret = <<>>

(***************************************************************************)
(* main, lines 102-107: load_config, then the output directory is deleted  *)
(* and created again                                                       *)
(***************************************************************************)
Abort(exc) ==
    /\ raised' = exc
    /\ exit_status' = "nonzero"
    /\ pc' = "exit"

\* A variant that cleans the output directory before it reads the configuration.
LoadConfigAfterClean ==
    /\ pc = "load"
    /\ dirs' = {Root}
    /\ files' = <<>>
    /\ IF config.kind = "unreadable"
        THEN Abort("JSONDecodeError")
        ELSE pc' = "self" /\ UNCHANGED <<raised, exit_status>>
    /\ UNCHANGED <<config, self_manifest, addon_xmls, i, log, merged, prev, arg, ret>>

\* open() or json.load() raises on an unreadable addons.json.
LoadConfig ==
    /\ pc = "load"
    /\ IF config.kind = "unreadable"
        THEN Abort("JSONDecodeError")
        ELSE pc' = "clean" /\ UNCHANGED <<raised, exit_status>>
    /\ UNCHANGED <<config, self_manifest, dirs, files, addon_xmls, i, log,
                   merged, prev, arg, ret>>

CleanOutput ==
    /\ pc = "clean"
    /\ dirs' = {Root}
    /\ files' = <<>>
    /\ pc' = "self"
    /\ UNCHANGED <<config, self_manifest, addon_xmls, i, exit_status, raised,
                   log, merged, prev, arg, ret>>

(***************************************************************************)
(* main, lines 111-141: the repository addon itself                        *)
(***************************************************************************)
DefaultVersion == "1.0.0"
DefaultId == "repository.dangerouslaser"

ZipName(addon_id, version) == <<addon_id, "-", version, ".zip">>

\* The files of SCRIPT_DIR/repository.dangerouslaser, each under "{addon_id}/".
SelfZip(addon_id) ==
    Zip(<<[name |-> <<addon_id, "addon.xml">>, data |-> SelfText],
          [name |-> <<addon_id, "icon.png">>, data |-> <<"png">>]>>)

\* A variant that writes a checksum beside the root copy as well.
SelfPackageChecksumBoth(m, ds, fs, xmls) ==
    IF m.present
        THEN LET version == get(m.attrs, "version", DefaultVersion)
                 addon_id == get(m.attrs, "id", DefaultId)
                 dest_dir == <<addon_id>>
                 zip_name == ZipName(addon_id, version)
                 zipped == WriteFile(fs, dest_dir, zip_name, SelfZip(addon_id))
                 copied == WriteFile(zipped, Root, zip_name, zipped[<<dest_dir, zip_name>>])
                 summed == WriteFile(copied, dest_dir, Md5Name(zip_name),
                                     md5sum(copied[<<dest_dir, zip_name>>]))
             IN [dirs |-> MkdirP(ds, dest_dir),
                 files |-> WriteFile(summed, Root, Md5Name(zip_name),
                                     md5sum(copied[<<Root, zip_name>>])),
                 xmls |-> Append(xmls, SelfText)]
        ELSE [dirs |-> ds, files |-> fs, xmls |-> xmls]

\* What lines 114-141 leave: the tree and addon_xmls.
SelfPackage(m, ds, fs, xmls) ==
    IF m.present
        THEN LET version == get(m.attrs, "version", DefaultVersion)
                 addon_id == get(m.attrs, "id", DefaultId)
                 dest_dir == <<addon_id>>
                 zip_name == ZipName(addon_id, version)
                 zipped == WriteFile(fs, dest_dir, zip_name, SelfZip(addon_id))
                 copied == WriteFile(zipped, Root, zip_name, zipped[<<dest_dir, zip_name>>])
             IN [dirs |-> MkdirP(ds, dest_dir),
                 files |-> WriteFile(copied, dest_dir, Md5Name(zip_name),
                                     md5sum(copied[<<dest_dir, zip_name>>])),
                 xmls |-> Append(xmls, SelfText)]
        ELSE [dirs |-> ds, files |-> fs, xmls |-> xmls]

RepoAddon ==
    /\ pc = "self"
    /\ LET r == SelfPackage(self_manifest, dirs, files, addon_xmls) IN
        /\ dirs' = r.dirs
        /\ files' = r.files
        /\ addon_xmls' = r.xmls
    /\ pc' = "loop"
    /\ UNCHANGED <<config, self_manifest, i, exit_status, raised, log, merged,
                   prev, arg, ret>>

(***************************************************************************)
(* main, lines 144-180: one configured addon.  The release service is      *)
(* outside the program: what `gh release view` and `gh release download`   *)
(* answer is chosen freely among the answers they can give.                *)
(***************************************************************************)
\* fetch_latest_release: gh exits non-zero (CalledProcessError, check=True),
\* gh cannot be started (FileNotFoundError), or its output is not JSON.
FetchOutcomes == {"ok", "CalledProcessError", "FileNotFoundError", "JSONDecodeError"}

AddonText(addon_id) ==
    <<"<?xml", "?>", "\n", "<addon>", basename(addon_id), "</addon>", "\n">>

\* What a release asset can be.
Assets(addon_id) ==
    [name : {<<"a", ".zip">>},
     content : {Zip(<<[name |-> addon_id \o <<ManifestName>>,
                       data |-> AddonText(addon_id)]>>),
                Zip(<<[name |-> <<"other", ManifestName>>,
                       data |-> AddonText(addon_id)]>>),
                Zip(<<[name |-> <<ManifestName>>, data |-> <<>>]>>),
                Zip(<<[name |-> <<ManifestName>>, data |-> <<BadByte>>]>>),
                Blob}]
    \cup [name : {<<"a", ".txt">>, IndexName}, content : {Blob}]

\* gh release download ... --dir dest_dir --clobber: its return code and the
\* asset it wrote.
Downloads(addon_id) ==
    {[rc |-> 1, name |-> <<>>, content |-> Blob]}
    \cup {[rc |-> 0, name |-> a.name, content |-> a.content] : a \in Assets(addon_id)}

\* download_asset up to the end of the gh call, lines 41-46.
Downloaded(ds, fs, dest_dir, dl) ==
    [dirs |-> MkdirP(ds, dest_dir),
     files |-> IF dl.rc = 0 THEN WriteFile(fs, dest_dir, dl.name, dl.content) ELSE fs]

\* download_asset, lines 47-53: the files the loop over dest_dir.iterdir() can
\* return; iterdir() yields in an order the file system decides.
ZipCandidates(fs, dest_dir, dl) ==
    IF dl.rc # 0 THEN {}
    ELSE {n \in FilesIn(fs, dest_dir) : suffix(n) = ".zip"}

NoZip == <<>>

ZipChoices(fs, dest_dir, dl) ==
    IF ZipCandidates(fs, dest_dir, dl) = {} THEN {NoZip}
    ELSE ZipCandidates(fs, dest_dir, dl)

\* A variant that puts the new fragment in front.
AppendFragmentFirst(xmls, xml_content) == <<xml_content>> \o xmls

\* addon_xmls.append(xml_content), line 174
AppendFragment(xmls, xml_content) == Append(xmls, xml_content)

Entry(addon_id, result, placed, zip_path, text) ==
    [addon_id |-> addon_id, result |-> result, placed |-> placed,
     zip_path |-> zip_path, text |-> text]

\* The body of the for loop with the collaborators' answers fetch and dl and
\* the archive zip_name that download_asset returned: the tree, addon_xmls,
\* the exception that leaves the loop ("none" if none) and the history entry.
AddonStep(addon_id, ds, fs, xmls, fetch, dl, zip_name) ==
    LET addon_dest == addon_id
        d == Downloaded(ds, fs, addon_dest, dl)
        placed == IF dl.rc = 0 THEN {<<addon_dest, dl.name>>} ELSE {}
        zip_path == <<addon_dest, zip_name>>
        skip(t, z) == [dirs |-> t.dirs, files |-> t.files, xmls |-> xmls, exc |-> "none",
                       entry |-> Entry(addon_id, "skipped", placed, z, <<>>)]
        abort(exc) == [dirs |-> d.dirs, files |-> d.files, xmls |-> xmls, exc |-> exc,
                       entry |-> Entry(addon_id, "raised", placed, zip_path, <<>>)]
    IN  IF fetch = "CalledProcessError"
            THEN [dirs |-> ds, files |-> fs, xmls |-> xmls, exc |-> "none",
                  entry |-> Entry(addon_id, "skipped", {}, NoZip, <<>>)]
        ELSE IF fetch # "ok"
            THEN [dirs |-> ds, files |-> fs, xmls |-> xmls, exc |-> fetch,
                  entry |-> Entry(addon_id, "raised", {}, NoZip, <<>>)]
        ELSE IF zip_name = NoZip THEN skip(d, NoZip)
        ELSE IF d.files[zip_path].kind # "zip" THEN abort("BadZipFile")
        ELSE LET xml_content == extract_addon_xml(d.files[zip_path].body, addon_id) IN
            IF xml_content.kind = "raise" THEN abort(xml_content.text[1])
            ELSE IF xml_content.kind = "none" \/ xml_content.text = <<>>
                THEN skip(d, zip_path)
            ELSE [dirs |-> d.dirs,
                  files |-> WriteFile(d.files, addon_dest, Md5Name(zip_name),
                                      md5sum(d.files[zip_path])),
                  xmls |-> AppendFragment(xmls, xml_content.text),
                  exc |-> "none",
                  entry |-> Entry(addon_id, "appended", placed, zip_path,
                                  xml_content.text)]

ProcessAddon ==
    /\ pc = "loop"
    /\ config.kind = "ok"
    /\ i <= Len(config.addons)
    /\ \E fetch \in FetchOutcomes, dl \in Downloads(config.addons[i].addon_id) :
        LET addon_id == config.addons[i].addon_id IN
        \E zip_name \in ZipChoices(Downloaded(dirs, files, addon_id, dl).files,
                                   addon_id, dl) :
            LET r == AddonStep(addon_id, dirs, files, addon_xmls, fetch, dl, zip_name) IN
            /\ dirs' = r.dirs
            /\ files' = r.files
            /\ addon_xmls' = r.xmls
            /\ log' = Append(log, r.entry)
            /\ IF r.exc = "none"
                THEN i' = i + 1 /\ UNCHANGED <<pc, raised, exit_status>>
                ELSE Abort(r.exc) /\ UNCHANGED i
    /\ UNCHANGED <<config, self_manifest, merged, prev, arg, ret>>

\* config["addons"], line 144, when the file holds no such key.
MissingAddonsKey ==
    /\ pc = "loop"
    /\ config.kind = "nokey"
    /\ Abort("KeyError")
    /\ UNCHANGED <<config, self_manifest, dirs, files, addon_xmls, i, log,
                   merged, prev, arg, ret>>

(***************************************************************************)
(* main, lines 182-196, and generate_index_pages                           *)
(***************************************************************************)
LoopDone == pc = "loop" /\ config.kind = "ok" /\ i > Len(config.addons)

\* A variant without the empty check.
NoFragmentsNever(xmls) == FALSE

\* not addon_xmls, line 182
NoFragments(xmls) == xmls = <<>>

\* sys.exit(1)
NoAddonsFound ==
    /\ LoopDone
    /\ NoFragments(addon_xmls)
    /\ exit_status' = "nonzero"
    /\ pc' = "exit"
    /\ UNCHANGED <<config, self_manifest, dirs, files, addon_xmls, i, raised,
                   log, merged, prev, arg, ret>>

WriteAddonsXml ==
    /\ LoopDone
    /\ ~ NoFragments(addon_xmls)
    /\ LET addons_xml == generate_addons_xml(addon_xmls) IN
        files' = WriteFile(WriteFile(files, Root, AddonsXmlName, encode(addons_xml)),
                           Root, Md5Name(AddonsXmlName), md5_string(addons_xml))
    /\ merged' = Append(merged, addon_xmls)
    /\ pc' = "index"
    /\ UNCHANGED <<config, self_manifest, dirs, addon_xmls, i, exit_status,
                   raised, log, prev, arg, ret>>

DirLink(d) == <<d, "/">>

RECURSIVE DirLinks(_)
DirLinks(ds) == IF ds = <<>> THEN <<>> ELSE <<DirLink(ds[1])>> \o DirLinks(Tail(ds))

\* A variant that does not leave index.html out.
ListingWithIndex(ds, fs, dirpath) ==
    LET is_root == dirpath = Root
        listed == {f \in FilesIn(fs, dirpath) : ~ (is_root /\ ~ endswith(f, ".zip"))}
    IN (IF ~ is_root THEN DirLinks(sorted(SubdirsOf(ds, dirpath), DirNameOrder))
        ELSE <<>>)
       \o sorted(listed, FileNameOrder)

\* The entries of one directory's page, lines 209-222.
Listing(ds, fs, dirpath) ==
    LET is_root == dirpath = Root
        listed == {f \in FilesIn(fs, dirpath) :
                    /\ f # IndexName
                    /\ ~ (is_root /\ ~ endswith(f, ".zip"))}
    IN (IF ~ is_root THEN DirLinks(sorted(SubdirsOf(ds, dirpath), DirNameOrder))
        ELSE <<>>)
       \o sorted(listed, FileNameOrder)

\* os.walk lists a directory before the loop body writes that directory's page.
generate_index_pages(ds, fs) ==
    [p \in DOMAIN fs \cup {<<d, IndexName>> : d \in ds} |->
        IF p[2] = IndexName THEN Html(Listing(ds, fs, p[1])) ELSE fs[p]]

GenerateIndexPages ==
    /\ pc = "index"
    /\ files' = generate_index_pages(dirs, files)
    /\ exit_status' = "zero"
    /\ pc' = "exit"
    /\ UNCHANGED <<config, self_manifest, dirs, addon_xmls, i, raised, log,
                   merged, prev, arg, ret>>

Next ==
    \/ LoadConfig
    \/ CleanOutput
    \/ RepoAddon
    \/ ProcessAddon
    \/ MissingAddonsKey
    \/ NoAddonsFound
    \/ WriteAddonsXml
    \/ GenerateIndexPages

Spec == Init /\ [][Next]_vars

(***************************************************************************)
(* Properties of a run                                                     *)
(***************************************************************************)
Exited == pc = "exit"
ExitedZero == pc = "exit" /\ exit_status = "zero"
Exists(dir, name) == <<dir, name>> \in DOMAIN files

\* C1: every failure of the release query, the download or the extraction of
\* a configured addon becomes a skip: nothing is raised out of the loop, every
\* addon is processed, and the run exits zero if it accumulated a fragment.
C1_FailuresBecomeSkips ==
    (Exited /\ config.kind = "ok") =>
        /\ raised = "none"
        /\ Len(log) = Len(config.addons)
        /\ \A k \in 1..Len(log) : log[k].result # "raised"
        /\ (addon_xmls # <<>> => exit_status = "zero")

\* C2: a run whose fragment list is empty once every configured addon is done
\* exits non-zero without calling the merger: no addons.xml, no addons.xml.md5
\* and no listing page is written; with no configured addon and no
\* self-manifest the output directory is left recreated and empty.
C2_EmptyRunIsFatal ==
    (Exited /\ config.kind = "ok" /\ raised = "none" /\ addon_xmls = <<>>) =>
        /\ exit_status = "nonzero"
        /\ merged = <<>>
        /\ ~ Exists(Root, AddonsXmlName)
        /\ ~ Exists(Root, Md5Name(AddonsXmlName))
        /\ \A p \in DOMAIN files : files[p].kind # "html"
        /\ (config.addons = <<>> /\ ~ self_manifest.present)
                => (dirs = {Root} /\ DOMAIN files = {})

C2_Witness ==
    /\ Exited /\ config.kind = "ok" /\ raised = "none" /\ addon_xmls = <<>>
    /\ Len(log) = 2
    /\ Exists(log[2].addon_id, <<"a", ".zip">>)

RECURSIVE AppendedTexts(_)
AppendedTexts(entries) ==
    IF entries = <<>> THEN <<>>
    ELSE (IF entries[1].result = "appended" THEN <<entries[1].text>> ELSE <<>>)
         \o AppendedTexts(Tail(entries))

ExpectedFragments ==
    (IF self_manifest.present THEN <<SelfText>> ELSE <<>>) \o AppendedTexts(log)

Occurrences(s, t) == Cardinality({k \in 1..Len(s) : s[k] = t})

C4_ChecksumBesideArtifact ==
    ExitedZero =>
        /\ \A k \in 1..Len(log) : \A a \in log[k].placed :
            suffix(a[2]) = ".zip" =>
                /\ Exists(a[1], Md5Name(a[2])) <=> log[k].result = "appended"
                /\ Exists(a[1], Md5Name(a[2]))
                    => files[<<a[1], Md5Name(a[2])>>] = md5sum(files[a])
        /\ files[<<Root, Md5Name(AddonsXmlName)>>]
                = md5_string(files[<<Root, AddonsXmlName>>].body)

\* C6: with an unreadable configuration file the run aborts at once and the
\* output tree stays as it was: nothing deleted, recreated, added or changed.
C6_BadConfigLeavesTree ==
    config.kind = "unreadable" =>
        /\ pc \in {"load", "exit"}
        /\ dirs = prev.dirs
        /\ DOMAIN files = DOMAIN prev.files
        /\ \A p \in DOMAIN files : files[p] = prev.files[p]
        /\ Exited => (exit_status = "nonzero" /\ raised # "none")

C6_Witness ==
    /\ Exited
    /\ config.kind = "unreadable"
    /\ prev = OldTree
    /\ Exists(Root, AddonsXmlName)

IsDirLink(link) == endswith(link, "/")

\* C8: after a run that exits zero every directory of the tree holds a listing
\* page; the root's page links only files ending in .zip and no directory; any
\* other page links its subdirectories first, then all its files; no page links
\* index.html.
C8_ListingPages ==
    ExitedZero =>
        \A d \in dirs :
            /\ Exists(d, IndexName)
            /\ files[<<d, IndexName>>].kind = "html"
            /\ LET links == files[<<d, IndexName>>].body
                   others == FilesIn(files, d) \ {IndexName}
               IN /\ \A k \in 1..Len(links) : links[k] # IndexName
                  /\ d = Root =>
                        \A k \in 1..Len(links) :
                            /\ endswith(links[k], ".zip")
                            /\ links[k] \in others
                  /\ d # Root =>
                        \E n \in 0..Len(links) :
                            /\ {links[k] : k \in 1..n}
                                = {DirLink(sd) : sd \in SubdirsOf(dirs, d)}
                            /\ n = Cardinality(SubdirsOf(dirs, d))
                            /\ {links[k] : k \in (n + 1)..Len(links)} = others
                            /\ Len(links) - n = Cardinality(others)

C8_Witness ==
    /\ ExitedZero
    /\ <<"plugin.a", "sub">> \in dirs
    /\ Exists(<<"plugin.a">>, <<"a", ".zip", ".md5">>)
    /\ Len(files[<<<<"plugin.a">>, IndexName>>].body) = 3
    /\ Len(log) = 2
    /\ log[2].placed = {<<<<"plugin.a", "sub">>, IndexName>>}

\* C9: when the self-manifest exists the run writes
\* {id}/{id}-{version}.zip (version "1.0.0" by default) with every entry under
\* "{id}/", a copy at the root, a checksum beside the nested copy only, and the
\* manifest text as the first fragment; when it is absent the tree and the
\* fragment list stay untouched and the run goes on to the configured addons.
C9_SelfPackage ==
    (pc = "loop" /\ log = <<>>) =>
        IF self_manifest.present
            THEN LET id == IF self_manifest.attrs.id = Absent
                                THEN "repository.dangerouslaser"
                                ELSE self_manifest.attrs.id
                     version == IF self_manifest.attrs.version = Absent
                                THEN "1.0.0" ELSE self_manifest.attrs.version
                     zip_name == <<id, "-", version, ".zip">>
                 IN /\ dirs = {Root, <<id>>}
                    /\ DOMAIN files = {<<<<id>>, zip_name>>, <<Root, zip_name>>,
                                       <<<<id>>, zip_name \o <<".md5">>>>}
                    /\ files[<<<<id>>, zip_name>>].kind = "zip"
                    /\ \A k \in 1..Len(files[<<<<id>>, zip_name>>].body) :
                            files[<<<<id>>, zip_name>>].body[k].name[1] = id
                    /\ files[<<Root, zip_name>>] = files[<<<<id>>, zip_name>>]
                    /\ files[<<<<id>>, zip_name \o <<".md5">>>>]
                            = md5sum(files[<<<<id>>, zip_name>>])
                    /\ addon_xmls = <<SelfText>>
            ELSE dirs = {Root} /\ DOMAIN files = {} /\ addon_xmls = <<>>

C9_Witness ==
    /\ pc = "loop" /\ log = <<>>
    /\ self_manifest.present
    /\ self_manifest.attrs.version = Absent
    /\ Exists(<<"repo.test">>, <<"repo.test", "-", "1.0.0", ".zip", ".md5">>)

\* C10: the fragment appended for a configured addon comes from an archive that
\* this addon's own download placed in its folder, never from one that was
\* there before, so no fragment is in the aggregate twice.
C10_FragmentFromOwnDownload ==
    /\ \A k \in 1..Len(log) :
        log[k].result = "appended" => log[k].zip_path \in log[k].placed
    /\ Distinct(addon_xmls)

====
